---- MODULE Spec2Model ----
(***************************************************************************)
(* Model of rdagent/utils/snowflake_conn.py: the environment lookup _env,  *)
(* the connection factory get_snowflake_conn and the query runner          *)
(* run_query, with the driver (snowflake.connector) and the key parser     *)
(* (cryptography) as black boxes whose every call may return or raise.     *)
(***************************************************************************)
EXTENDS Naturals, Sequences, FiniteSets, TLC

(* ---------------------------------------------------------------------- *)
(* Bounds of the exploration                                               *)
(* ---------------------------------------------------------------------- *)
\* number of changes made to os.environ after the initial environment
MaxEdits == 1
\* number of calls of get_snowflake_conn / run_query made by the caller
MaxCalls == 2

(* ---------------------------------------------------------------------- *)
(* Values                                                                  *)
(* ---------------------------------------------------------------------- *)
\* Python's None (what dict.get returns for a missing key)
None == "None"
\* the strings an environment variable may hold: the empty string, a string
\* that is not a PEM key, and a string that is a well-formed unencrypted PEM key
Strings == {"", "x", "pem"}
\* the names get_snowflake_conn looks up
UpperNames == {"SNOW_USER", "SNOW_ACCOUNT", "SNOW_PWD", "SNOW_PRIVATE_KEY",
               "SNOW_WAREHOUSE", "SNOW_DATABASE", "SNOW_SCHEMA", "SNOW_ROLE"}
\* str.lower() on those names
lower(name) ==
    CASE name = "SNOW_USER"        -> "snow_user"
      [] name = "SNOW_ACCOUNT"     -> "snow_account"
      [] name = "SNOW_PWD"         -> "snow_pwd"
      [] name = "SNOW_PRIVATE_KEY" -> "snow_private_key"
      [] name = "SNOW_WAREHOUSE"   -> "snow_warehouse"
      [] name = "SNOW_DATABASE"    -> "snow_database"
      [] name = "SNOW_SCHEMA"      -> "snow_schema"
      [] name = "SNOW_ROLE"        -> "snow_role"
      [] OTHER                     -> name
\* every key of os.environ the program can read
EnvNames == UpperNames \cup {lower(n) : n \in UpperNames}
\* the tuple the loop of get_snowflake_conn iterates over
OPTS == <<"SNOW_WAREHOUSE", "SNOW_DATABASE", "SNOW_SCHEMA", "SNOW_ROLE">>
\* opt.split("SNOW_")[1].lower(): the keyword an optional variable is passed as
KwName(opt) ==
    CASE opt = "SNOW_WAREHOUSE" -> "warehouse"
      [] opt = "SNOW_DATABASE"  -> "database"
      [] opt = "SNOW_SCHEMA"    -> "schema"
      [] opt = "SNOW_ROLE"      -> "role"

\* Python truthiness of an Optional[str]
Truthy(v) == v # None /\ v # ""
\* a or b
PyOr(a, b) == IF Truthy(a) THEN a ELSE b
\* os.environ.get(key)
EnvironGet(env, key) == IF key \in DOMAIN env THEN env[key] ELSE None

\* _env as it would be with the two lookups swapped
EnvLowerFirst(env, name) == PyOr(EnvironGet(env, lower(name)), EnvironGet(env, name))
\* _env(name)
Env(env, name) == PyOr(EnvironGet(env, name), EnvironGet(env, lower(name)))

(* ---------------------------------------------------------------------- *)
(* Errors                                                                  *)
(* ---------------------------------------------------------------------- *)
ErrNoDriver   == [type |-> "RuntimeError", msg |-> "snowflake-connector-python is not installed"]
ErrMissing    == [type |-> "RuntimeError", msg |-> "Missing SNOW_USER or SNOW_ACCOUNT environment variables"]
ErrNoCrypto   == [type |-> "RuntimeError", msg |-> "cryptography is required for private key auth"]
ErrNoAuth     == [type |-> "RuntimeError", msg |-> "Provide SNOW_PWD or SNOW_PRIVATE_KEY for authentication"]
\* raised by serialization.load_pem_private_key on a malformed key
ErrKeyParse   == [type |-> "ValueError", msg |-> "load_pem_private_key"]
\* raised by the driver: one error per call that can fail
ErrConnect    == [type |-> "DriverError", msg |-> "connect"]
ErrCursor     == [type |-> "DriverError", msg |-> "cursor"]
ErrExecute    == [type |-> "DriverError", msg |-> "execute"]
ErrFetchall   == [type |-> "DriverError", msg |-> "fetchall"]
ErrCurClose   == [type |-> "DriverError", msg |-> "cursor.close"]
ErrConnClose  == [type |-> "DriverError", msg |-> "connection.close"]
NoError       == [type |-> "None", msg |-> ""]

(* ---------------------------------------------------------------------- *)
(* get_snowflake_conn, up to the call of connect                           *)
(* ---------------------------------------------------------------------- *)
\* the test of line 47 with "and" in the place of "or"
MissingBoth(user, account) == ~Truthy(user) /\ ~Truthy(account)
\* line 47: not user or not account
MissingRequired(user, account) == ~Truthy(user) \/ ~Truthy(account)

\* the loop of lines 55-58 without the test of line 57
IncludeAlways(v) == TRUE
\* the test of line 57 as "v is not None"
IncludeNotNone(v) == v # None
\* line 57: if v
IncludeOpt(v) == Truthy(v)

\* lines 55-58: the loop over the optional variables, from index i on
RECURSIVE OptLoop(_, _, _)
OptLoop(env, kwargs, i) ==
    IF i > Len(OPTS) THEN kwargs
    ELSE LET v == Env(env, OPTS[i])
         IN OptLoop(env,
                    IF IncludeOpt(v) THEN (KwName(OPTS[i]) :> v) @@ kwargs ELSE kwargs,
                    i + 1)

\* serialization.load_pem_private_key(pem.encode(), password=None): whether it parses
PemParses(pem) == pem = "pem"
\* ... and the key object it returns
LoadPem(pem) == "PrivateKey"

\* the outcome of the factory before connect: an error, or the keyword
\* arguments of the connect call
Raise(e) == [err |-> e, kwargs |-> <<>>]
Request(kw) == [err |-> NoError, kwargs |-> kw]

\* lines 61-73 with the password tried first
AuthPasswordFirst(kwargs, private_key_pem, password, cryptoOK) ==
    IF Truthy(password) THEN Request(("password" :> password) @@ kwargs)
    ELSE IF Truthy(private_key_pem) THEN
        IF ~cryptoOK THEN Raise(ErrNoCrypto)
        ELSE IF ~PemParses(private_key_pem) THEN Raise(ErrKeyParse)
        ELSE Request(("private_key" :> LoadPem(private_key_pem)) @@ kwargs)
    ELSE Raise(ErrNoAuth)
\* lines 61-73 falling back to the password when the key cannot be used
AuthFallback(kwargs, private_key_pem, password, cryptoOK) ==
    IF Truthy(private_key_pem) /\ cryptoOK /\ PemParses(private_key_pem)
    THEN Request(("private_key" :> LoadPem(private_key_pem)) @@ kwargs)
    ELSE IF Truthy(password) THEN Request(("password" :> password) @@ kwargs)
    ELSE IF ~Truthy(private_key_pem) THEN Raise(ErrNoAuth)
    ELSE IF ~cryptoOK THEN Raise(ErrNoCrypto) ELSE Raise(ErrKeyParse)
\* lines 61-73: the choice of the authentication mode
Auth(kwargs, private_key_pem, password, cryptoOK) ==
    IF Truthy(private_key_pem) THEN
        IF ~cryptoOK THEN Raise(ErrNoCrypto)
        ELSE IF ~PemParses(private_key_pem) THEN Raise(ErrKeyParse)
        ELSE Request(("private_key" :> LoadPem(private_key_pem)) @@ kwargs)
    ELSE IF Truthy(password) THEN Request(("password" :> password) @@ kwargs)
    ELSE Raise(ErrNoAuth)

\* lines 39-73: everything get_snowflake_conn does before line 75.
\* drv: the import of snowflake.connector succeeded; cryptoOK: the import of
\* cryptography at line 64 succeeds
Prepare(env, drv, cryptoOK) ==
    IF ~drv THEN Raise(ErrNoDriver)
    ELSE LET user            == Env(env, "SNOW_USER")
             account         == Env(env, "SNOW_ACCOUNT")
             password        == Env(env, "SNOW_PWD")
             private_key_pem == Env(env, "SNOW_PRIVATE_KEY")
         IN IF MissingRequired(user, account) THEN Raise(ErrMissing)
            ELSE Auth(OptLoop(env, ("user" :> user) @@ ("account" :> account), 1),
                      private_key_pem, password, cryptoOK)

(* ---------------------------------------------------------------------- *)
(* State                                                                   *)
(* ---------------------------------------------------------------------- *)
VARIABLES
    environ,     \* os.environ: a dict from names to strings
    edits,       \* number of changes made to os.environ so far
    snowflake,   \* FALSE when the import of line 23 failed (snowflake = None)
    cryptography,\* whether the import of line 64 succeeds when it is reached
    calls,       \* number of calls made by the caller so far
    pc,          \* position of the call in progress
    op,          \* the function the caller called
    arg,         \* the name passed to _env when the caller called _env
    connectLog,  \* keyword arguments of each connect call of this call
    conn,        \* run_query's local conn (index into conns, 0: unbound)
    cur,         \* run_query's local cur (index into cursors, 0: unbound)
    pending,     \* the exception in flight through the finally blocks
    retval,      \* the value of the return statement of line 85, once evaluated
    events,      \* the driver calls of this call, in order
    result,      \* what the caller gets once the call is over
    conns,       \* every connection connect has returned
    cursors,     \* every cursor conn.cursor() has returned
    connects     \* number of connect calls ever made

vars == <<environ, edits, snowflake, cryptography, calls, pc, op, arg, connectLog,
          conn, cur, pending, retval, events, result, conns, cursors, connects>>

\* what a call gives its caller: the value returned (a string or None for
\* _env, a connection for get_snowflake_conn, fetchall's rows for run_query)
\* or the exception raised
NoResult == [kind |-> "none", err |-> NoError, value |-> "none", conn |-> 0]
Returned(value, c) == [kind |-> "return", err |-> NoError, value |-> value, conn |-> c]
Raised(e) == [kind |-> "raise", err |-> e, value |-> "none", conn |-> 0]
\* one call of the driver and whether it returned (TRUE) or raised (FALSE)
Call(name, ok) == [call |-> name, ok |-> ok]

\* a dict of environment variables
EmptyEnv == [k \in {} |-> ""]
\* the environments the process starts in: nothing set, password
\* authentication, key-pair authentication, the lower-cased names, a
\* malformed key beside a password, and a configuration with optional variables
BaseEnvs ==
    { EmptyEnv,
      [SNOW_USER |-> "x", SNOW_ACCOUNT |-> "x", SNOW_PWD |-> "x"],
      [SNOW_USER |-> "x", SNOW_ACCOUNT |-> "x", SNOW_PRIVATE_KEY |-> "pem"],
      [snow_user |-> "x", snow_account |-> "x", snow_pwd |-> "pem"],
      [SNOW_USER |-> "x", SNOW_ACCOUNT |-> "x", SNOW_PWD |-> "pem",
       SNOW_PRIVATE_KEY |-> "x"],
      [SNOW_USER |-> "x", SNOW_ACCOUNT |-> "x", SNOW_PWD |-> "x",
       SNOW_WAREHOUSE |-> "x", snow_database |-> "pem", SNOW_ROLE |-> ""] }

Init ==
    /\ environ \in BaseEnvs
    /\ edits = 0
    /\ snowflake \in BOOLEAN
    /\ cryptography \in BOOLEAN
    /\ calls = 0
    /\ pc = "idle"
    /\ op = "none"
    /\ arg = "none"
    /\ connectLog = <<>>
    /\ conn = 0
    /\ cur = 0
    /\ pending = NoError
    /\ retval = "none"
    /\ events = <<>>
    /\ result = NoResult
    /\ conns = <<>>
    /\ cursors = <<>>
    /\ connects = [run_query |-> 0, get_snowflake_conn |-> 0]

(* ---------------------------------------------------------------------- *)
(* The process environment                                                 *)
(* ---------------------------------------------------------------------- *)
\* os.environ[name] = value, between two calls
SetEnv ==
    /\ pc = "idle"
    /\ edits < MaxEdits
    /\ \E name \in EnvNames, value \in Strings :
          environ' = (name :> value) @@ environ
    /\ edits' = edits + 1
    /\ UNCHANGED <<snowflake, cryptography, calls, pc, op, arg, connectLog, conn,
                   cur, pending, retval, events, result, conns, cursors, connects>>

\* del os.environ[name], between two calls
DelEnv ==
    /\ pc = "idle"
    /\ edits < MaxEdits
    /\ \E name \in DOMAIN environ :
          environ' = [k \in DOMAIN environ \ {name} |-> environ[k]]
    /\ edits' = edits + 1
    /\ UNCHANGED <<snowflake, cryptography, calls, pc, op, arg, connectLog, conn,
                   cur, pending, retval, events, result, conns, cursors, connects>>

(* ---------------------------------------------------------------------- *)
(* _env and get_snowflake_conn as the caller calls them                    *)
(* ---------------------------------------------------------------------- *)
\* the caller calls _env(name): a pure lookup, nothing else changes
EnvCall ==
    /\ pc = "idle"
    /\ \E name \in UpperNames :
          /\ arg' = name
          /\ result' = Returned(Env(environ, name), 0)
    /\ op' = "_env"
    /\ pc' = "done"
    /\ UNCHANGED <<environ, edits, snowflake, cryptography, calls, connectLog, conn,
                   cur, pending, retval, events, conns, cursors, connects>>

\* a connection as the driver returns it: by the call that asked for it,
\* not yet closed, used by nobody yet
NewConn(by) == [via |-> by, call |-> calls + 1, closes |-> 0, users |-> {}]

\* lines 39-75 as one step of the function `by`: on success the connection is
\* bound at position `next`; an error of the factory or of connect propagates
Factory(by, next) ==
    LET prep == Prepare(environ, snowflake, cryptography)
    IN /\ calls' = calls + 1
       /\ op' = by
       /\ IF prep.err # NoError
          THEN /\ pc' = "done"
               /\ result' = Raised(prep.err)
               /\ UNCHANGED <<connectLog, conn, conns, connects, events>>
          ELSE /\ connectLog' = Append(connectLog, prep.kwargs)
               /\ connects' = [connects EXCEPT ![by] = @ + 1]
               /\ \E ok \in BOOLEAN :
                     /\ events' = Append(events, Call("connect", ok))
                     /\ IF ok
                        THEN /\ conns' = Append(conns, NewConn(by))
                             /\ conn' = Len(conns) + 1
                             /\ pc' = next
                             /\ result' = IF next = "done"
                                          THEN Returned("connection", Len(conns) + 1)
                                          ELSE NoResult
                        ELSE /\ pc' = "done"
                             /\ result' = Raised(ErrConnect)
                             /\ UNCHANGED <<conn, conns>>
       /\ UNCHANGED <<environ, edits, snowflake, cryptography, arg, cur, pending,
                      retval, cursors>>

\* the caller calls get_snowflake_conn() and owns the connection it returns
GetSnowflakeConn ==
    /\ pc = "idle"
    /\ calls < MaxCalls
    /\ Factory("get_snowflake_conn", "done")

(* ---------------------------------------------------------------------- *)
(* run_query                                                               *)
(* ---------------------------------------------------------------------- *)
\* conns with one more method call on connection c by the current call
Use(cs, c) == [cs EXCEPT ![c].users = @ \cup {calls}]

\* line 80: conn = get_snowflake_conn(), outside of the try statement
RQ_GetConn ==
    /\ pc = "idle"
    /\ calls < MaxCalls
    /\ Factory("run_query", "try_outer")

\* line 82 without the try/finally of lines 81-89 around it
RQ_CursorNoFinally ==
    /\ pc = "try_outer"
    /\ \E ok \in BOOLEAN :
          /\ events' = Append(events, Call("cursor", ok))
          /\ IF ok
             THEN /\ cursors' = Append(cursors, [conn |-> conn, closes |-> 0])
                  /\ cur' = Len(cursors) + 1
                  /\ pc' = "try_inner"
                  /\ UNCHANGED <<pending, result>>
             ELSE /\ pending' = ErrCursor
                  /\ result' = Raised(ErrCursor)
                  /\ pc' = "done"
                  /\ UNCHANGED <<cursors, cur>>
    /\ conns' = Use(conns, conn)
    /\ UNCHANGED <<environ, edits, snowflake, cryptography, calls, op, arg,
                   connectLog, conn, retval, connects>>
\* line 82: cur = conn.cursor(), inside the outer try
RQ_Cursor ==
    /\ pc = "try_outer"
    /\ \E ok \in BOOLEAN :
          /\ events' = Append(events, Call("cursor", ok))
          /\ IF ok
             THEN /\ cursors' = Append(cursors, [conn |-> conn, closes |-> 0])
                  /\ cur' = Len(cursors) + 1
                  /\ pc' = "try_inner"
                  /\ UNCHANGED pending
             ELSE /\ pending' = ErrCursor
                  /\ pc' = "finally_outer"
                  /\ UNCHANGED <<cursors, cur>>
    /\ conns' = Use(conns, conn)
    /\ UNCHANGED <<environ, edits, snowflake, cryptography, calls, op, arg,
                   connectLog, conn, retval, result, connects>>

\* line 84 without the try/finally of lines 83-87 around it: a failure goes
\* straight to the outer finally
RQ_ExecuteNoFinally ==
    /\ pc = "try_inner"
    /\ \E ok \in BOOLEAN :
          /\ events' = Append(events, Call("execute", ok))
          /\ IF ok
             THEN /\ pc' = "executed"
                  /\ UNCHANGED pending
             ELSE /\ pending' = ErrExecute
                  /\ pc' = "finally_outer"
    /\ UNCHANGED <<environ, edits, snowflake, cryptography, calls, op, arg,
                   connectLog, conn, cur, retval, result, conns, cursors, connects>>
\* line 84: cur.execute(query), inside the inner try
RQ_Execute ==
    /\ pc = "try_inner"
    /\ \E ok \in BOOLEAN :
          /\ events' = Append(events, Call("execute", ok))
          /\ IF ok
             THEN /\ pc' = "executed"
                  /\ UNCHANGED pending
             ELSE /\ pending' = ErrExecute
                  /\ pc' = "finally_inner"
    /\ UNCHANGED <<environ, edits, snowflake, cryptography, calls, op, arg,
                   connectLog, conn, cur, retval, result, conns, cursors, connects>>

\* line 85: return cur.fetchall(); the return value waits for the finally blocks
RQ_Fetchall ==
    /\ pc = "executed"
    /\ \E ok \in BOOLEAN :
          /\ events' = Append(events, Call("fetchall", ok))
          /\ IF ok
             THEN /\ retval' = "rows"
                  /\ UNCHANGED pending
             ELSE /\ pending' = ErrFetchall
                  /\ UNCHANGED retval
    /\ pc' = "finally_inner"
    /\ UNCHANGED <<environ, edits, snowflake, cryptography, calls, op, arg,
                   connectLog, conn, cur, result, conns, cursors, connects>>

\* lines 86-87: finally: cur.close(); an error of close replaces the
\* exception in flight and discards the pending return
RQ_CursorClose ==
    /\ pc = "finally_inner"
    /\ cursors' = [cursors EXCEPT ![cur].closes = @ + 1]
    /\ \E ok \in BOOLEAN :
          /\ events' = Append(events, Call("cursor.close", ok))
          /\ IF ok
             THEN UNCHANGED <<pending, retval>>
             ELSE /\ pending' = ErrCurClose
                  /\ retval' = "none"
    /\ pc' = "finally_outer"
    /\ UNCHANGED <<environ, edits, snowflake, cryptography, calls, op, arg,
                   connectLog, conn, cur, result, conns, connects>>

\* lines 88-89 with a return in the finally block: the exception in flight
\* is dropped
RQ_ConnCloseSwallow ==
    /\ pc = "finally_outer"
    /\ conns' = [Use(conns, conn) EXCEPT ![conn].closes = @ + 1]
    /\ \E ok \in BOOLEAN :
          /\ events' = Append(events, Call("connection.close", ok))
          /\ result' = IF ~ok THEN Raised(ErrConnClose) ELSE Returned(retval, 0)
    /\ pc' = "done"
    /\ UNCHANGED <<environ, edits, snowflake, cryptography, calls, op, arg,
                   connectLog, conn, cur, pending, retval, cursors, connects>>
\* lines 88-89 as an else clause: the connection is closed only when no
\* exception is in flight
RQ_ConnCloseOnSuccess ==
    /\ pc = "finally_outer"
    /\ IF pending # NoError
       THEN /\ result' = Raised(pending)
            /\ UNCHANGED <<conns, events>>
       ELSE /\ conns' = [Use(conns, conn) EXCEPT ![conn].closes = @ + 1]
            /\ \E ok \in BOOLEAN :
                  /\ events' = Append(events, Call("connection.close", ok))
                  /\ result' = IF ~ok THEN Raised(ErrConnClose)
                               ELSE Returned(retval, 0)
    /\ pc' = "done"
    /\ UNCHANGED <<environ, edits, snowflake, cryptography, calls, op, arg,
                   connectLog, conn, cur, pending, retval, cursors, connects>>
\* lines 88-89: finally: conn.close(); then the pending return or exception
\* reaches the caller, unless close itself raises
RQ_ConnClose ==
    /\ pc = "finally_outer"
    /\ conns' = [Use(conns, conn) EXCEPT ![conn].closes = @ + 1]
    /\ \E ok \in BOOLEAN :
          /\ events' = Append(events, Call("connection.close", ok))
          /\ result' = IF ~ok THEN Raised(ErrConnClose)
                       ELSE IF pending # NoError THEN Raised(pending)
                       ELSE Returned(retval, 0)
    /\ pc' = "done"
    /\ UNCHANGED <<environ, edits, snowflake, cryptography, calls, op, arg,
                   connectLog, conn, cur, pending, retval, cursors, connects>>

\* the caller has the result; the frame of the call is gone
Return ==
    /\ pc = "done"
    /\ pc' = "idle"
    /\ op' = "none"
    /\ arg' = "none"
    /\ connectLog' = <<>>
    /\ conn' = 0
    /\ cur' = 0
    /\ pending' = NoError
    /\ retval' = "none"
    /\ events' = <<>>
    /\ result' = NoResult
    /\ UNCHANGED <<environ, edits, snowflake, cryptography, calls, conns, cursors,
                   connects>>

\* the caller configures the environment and calls _env and the factory
NextFactory ==
    \/ SetEnv
    \/ DelEnv
    \/ EnvCall
    \/ GetSnowflakeConn
    \/ Return

\* the caller runs queries, and takes connections of its own, in a fixed
\* environment
NextQuery ==
    \/ GetSnowflakeConn
    \/ RQ_GetConn
    \/ RQ_Cursor
    \/ RQ_Execute
    \/ RQ_Fetchall
    \/ RQ_CursorClose
    \/ RQ_ConnClose
    \/ Return

SpecFactory == Init /\ [][NextFactory]_vars
SpecQuery == Init /\ [][NextQuery]_vars

(* ---------------------------------------------------------------------- *)
(* Vocabulary of the properties                                            *)
(* ---------------------------------------------------------------------- *)
\* the variable is in the environment, under its exact or its lower-cased name
IsSet(env, name) == name \in DOMAIN env \/ lower(name) \in DOMAIN env
\* the variable holds a non-empty string under one of its two names
HasValue(env, name) ==
    \/ name \in DOMAIN env /\ env[name] # ""
    \/ lower(name) \in DOMAIN env /\ env[lower(name)] # ""
\* the exact-case value when it is set and not empty, else the lower-cased
\* value when it is set, else None
ValueOf(env, name) ==
    IF name \in DOMAIN env /\ env[name] # "" THEN env[name]
    ELSE IF lower(name) \in DOMAIN env THEN env[lower(name)]
    ELSE None
\* get_snowflake_conn has run in the call in progress or just over
FactoryActed == pc # "idle" /\ op \in {"get_snowflake_conn", "run_query"}
\* a call of run_query is over and its result is with the caller
QueryOver == pc = "done" /\ op = "run_query"
\* the positions of the driver call `name` in this call's events
Positions(name) == {i \in DOMAIN events : events[i].call = name}
Count(name) == Cardinality(Positions(name))
\* the driver call `name` was made in this call and raised
Failed(name) == \E i \in DOMAIN events : events[i] = Call(name, FALSE)
\* the names of this call's driver calls, in order
Names == [i \in DOMAIN events |-> events[i].call]
\* the connections run_query obtained, and the close calls made on them
QueryConns == {i \in DOMAIN conns : conns[i].via = "run_query"}
RECURSIVE QueryCloses(_)
QueryCloses(i) ==
    IF i = 0 THEN 0
    ELSE QueryCloses(i - 1) + (IF conns[i].via = "run_query" THEN conns[i].closes ELSE 0)

(* ---------------------------------------------------------------------- *)
(* C1                                                                      *)
(* ---------------------------------------------------------------------- *)
RequiredMissing(env) ==
    \/ ~IsSet(env, "SNOW_USER")
    \/ ~IsSet(env, "SNOW_ACCOUNT")
    \/ ~IsSet(env, "SNOW_PWD") /\ ~IsSet(env, "SNOW_PRIVATE_KEY")

\* C1: in every environment where SNOW_USER, or SNOW_ACCOUNT, or both SNOW_PWD
\* and SNOW_PRIVATE_KEY are absent under the exact-case and the lower-cased
\* name, get_snowflake_conn raises a RuntimeError and connect is not called
\* in that call.
C1_MissingRequiredFails ==
    (FactoryActed /\ RequiredMissing(environ)) =>
        /\ pc = "done"
        /\ result.kind = "raise"
        /\ result.err.type = "RuntimeError"
        /\ connectLog = <<>>
        /\ events = <<>>

\* user and account are there, no password and no key: the factory has raised
\* the error of line 73
C1_Witness ==
    /\ pc = "done" /\ op = "get_snowflake_conn" /\ snowflake
    /\ IsSet(environ, "SNOW_USER") /\ IsSet(environ, "SNOW_ACCOUNT")
    /\ ~IsSet(environ, "SNOW_PWD") /\ ~IsSet(environ, "SNOW_PRIVATE_KEY")
    /\ result = Raised(ErrNoAuth)

(* ---------------------------------------------------------------------- *)
(* C2                                                                      *)
(* ---------------------------------------------------------------------- *)
BothSecrets(env) ==
    /\ HasValue(env, "SNOW_USER") /\ HasValue(env, "SNOW_ACCOUNT")
    /\ HasValue(env, "SNOW_PRIVATE_KEY") /\ HasValue(env, "SNOW_PWD")

\* C2: when a private key and a password are both present (non-empty), with
\* user and account, every connect request of get_snowflake_conn has the key
\* private_key and has no key password; and when the key can be used, there
\* is such a request.
C2_KeyPairPrecedence ==
    (FactoryActed /\ BothSecrets(environ)) =>
        /\ \A i \in DOMAIN connectLog :
              /\ "private_key" \in DOMAIN connectLog[i]
              /\ "password" \notin DOMAIN connectLog[i]
        /\ (snowflake /\ cryptography /\ PemParses(ValueOf(environ, "SNOW_PRIVATE_KEY")))
              => Len(connectLog) = 1

\* both secrets are set and connect has been called with the key
C2_Witness ==
    /\ FactoryActed /\ BothSecrets(environ)
    /\ Len(connectLog) = 1
    /\ "private_key" \in DOMAIN connectLog[1]

(* ---------------------------------------------------------------------- *)
(* C3                                                                      *)
(* ---------------------------------------------------------------------- *)
EnvOver == pc = "done" /\ op = "_env"

\* C3 as stated: _env returns the exact-case variable's value whenever that
\* variable is set (to any string, the empty one included), the lower-cased
\* variable's value when only that one is set, so that a value set under
\* either name alone comes back the same.
C3_Original ==
    EnvOver =>
        /\ arg \in DOMAIN environ => result.value = environ[arg]
        /\ (arg \notin DOMAIN environ /\ lower(arg) \in DOMAIN environ)
              => result.value = environ[lower(arg)]

\* C3, amended: _env returns the exact-case variable's value when it is set
\* to a non-empty string; otherwise (exact-case absent or empty) the
\* lower-cased variable's value when that one is set, and None when it is
\* not. So a non-empty value comes back the same under either name, and the
\* exact-case variable takes precedence exactly when it is not empty.
C3_EnvLookup ==
    EnvOver =>
        /\ result.kind = "return"
        /\ (arg \in DOMAIN environ /\ environ[arg] # "")
              => result.value = environ[arg]
        /\ (arg \in DOMAIN environ /\ environ[arg] = "" /\ lower(arg) \in DOMAIN environ)
              => result.value = environ[lower(arg)]
        /\ (arg \in DOMAIN environ /\ environ[arg] = "" /\ lower(arg) \notin DOMAIN environ)
              => result.value = None
        /\ (arg \notin DOMAIN environ /\ lower(arg) \in DOMAIN environ)
              => result.value = environ[lower(arg)]
        /\ (arg \notin DOMAIN environ /\ lower(arg) \notin DOMAIN environ)
              => result.value = None

\* both names are set to different non-empty strings and _env has returned
\* the exact-case one
C3_Witness ==
    /\ EnvOver
    /\ arg \in DOMAIN environ /\ lower(arg) \in DOMAIN environ
    /\ environ[arg] # "" /\ environ[lower(arg)] # ""
    /\ environ[arg] # environ[lower(arg)]
    /\ result.value = environ[arg]

(* ---------------------------------------------------------------------- *)
(* C4                                                                      *)
(* ---------------------------------------------------------------------- *)
OptNames == {OPTS[i] : i \in DOMAIN OPTS}

\* C4 as stated: in every connect request, an optional key is there if and
\* only if its variable is set (under either name, to any string), its value
\* is the variable's value, and it is never the empty string.
C4_Original ==
    FactoryActed =>
        \A i \in DOMAIN connectLog : \A opt \in OptNames :
            /\ KwName(opt) \in DOMAIN connectLog[i] <=> IsSet(environ, opt)
            /\ KwName(opt) \in DOMAIN connectLog[i] =>
                  /\ connectLog[i][KwName(opt)] =
                        (IF opt \in DOMAIN environ THEN environ[opt]
                         ELSE environ[lower(opt)])
                  /\ connectLog[i][KwName(opt)] # ""

\* C4, amended: in every connect request, an optional key is there if and
\* only if its variable holds a non-empty string under the exact-case name
\* or under the lower-cased name; its value is then the exact-case value when
\* that is not empty and the lower-cased value otherwise; a variable set to
\* the empty string counts as absent, and no optional key is passed with an
\* empty-string value.
C4_OptionalKeys ==
    FactoryActed =>
        \A i \in DOMAIN connectLog :
            /\ \A opt \in OptNames :
                  /\ KwName(opt) \in DOMAIN connectLog[i] <=> HasValue(environ, opt)
                  /\ KwName(opt) \in DOMAIN connectLog[i] =>
                        /\ connectLog[i][KwName(opt)] = ValueOf(environ, opt)
                        /\ connectLog[i][KwName(opt)] # ""
                        /\ connectLog[i][KwName(opt)] # None
            /\ DOMAIN connectLog[i] \subseteq
                  {"user", "account", "password", "private_key"}
                     \cup {KwName(opt) : opt \in OptNames}

\* connect has been called with one optional variable passed and another
\* one, set to the empty string, left out
C4_Witness ==
    /\ FactoryActed /\ Len(connectLog) = 1
    /\ \E a \in OptNames, b \in OptNames :
          /\ KwName(a) \in DOMAIN connectLog[1]
          /\ b \in DOMAIN environ /\ environ[b] = ""
          /\ KwName(b) \notin DOMAIN connectLog[1]

(* ---------------------------------------------------------------------- *)
(* C6                                                                      *)
(* ---------------------------------------------------------------------- *)
OnlyPassword(env) == DOMAIN env = {"SNOW_USER", "SNOW_ACCOUNT", "SNOW_PWD"}
PasswordRequest(env) ==
    [user |-> env["SNOW_USER"], account |-> env["SNOW_ACCOUNT"],
     password |-> env["SNOW_PWD"]]

\* C6 as stated: when exactly SNOW_USER, SNOW_ACCOUNT and SNOW_PWD are set
\* (to any strings) and the driver is installed, get_snowflake_conn calls
\* connect once, with exactly user, account and password, each the value of
\* its variable.
C6_Original ==
    (FactoryActed /\ snowflake /\ OnlyPassword(environ)) =>
        connectLog = <<PasswordRequest(environ)>>

\* C6, amended: when exactly SNOW_USER, SNOW_ACCOUNT and SNOW_PWD are set,
\* each to a non-empty string, and the driver is installed,
\* get_snowflake_conn calls connect once, with exactly user, account and
\* password, each the value of its variable unchanged, and no other key.
C6_PasswordRequest ==
    (/\ FactoryActed /\ snowflake /\ OnlyPassword(environ)
     /\ \A n \in DOMAIN environ : environ[n] # "") =>
        connectLog = <<PasswordRequest(environ)>>

\* the three variables are set to non-empty strings and connect has been
\* called with them
C6_Witness ==
    /\ pc = "done" /\ op = "get_snowflake_conn"
    /\ OnlyPassword(environ)
    /\ \A n \in DOMAIN environ : environ[n] # ""
    /\ connectLog = <<[user |-> "x", account |-> "x", password |-> "x"]>>

(* ---------------------------------------------------------------------- *)
(* C5                                                                      *)
(* ---------------------------------------------------------------------- *)
\* C5: every call of run_query in which connect and conn.cursor() returned
\* makes exactly one cursor execute, one cursor close and one connection
\* close, whether execute returns or raises (and whatever the later calls do).
C5_OneExecuteOneCloseEach ==
    (QueryOver /\ cur # 0) =>
        /\ Count("execute") = 1
        /\ Count("cursor.close") = 1
        /\ Count("connection.close") = 1
        /\ cursors[cur].closes = 1
        /\ conns[conn].closes = 1

\* execute has raised and the call is over
C5_Witness ==
    /\ QueryOver /\ cur # 0
    /\ Failed("execute")
    /\ result.kind = "raise"

(* ---------------------------------------------------------------------- *)
(* C7                                                                      *)
(* ---------------------------------------------------------------------- *)
\* the error execute or fetchall raised in this call
QueryError == IF Failed("execute") THEN ErrExecute ELSE ErrFetchall
BothClosed ==
    /\ Count("cursor.close") = 1 /\ cursors[cur].closes = 1
    /\ Count("connection.close") = 1 /\ conns[conn].closes = 1

\* C7 as stated: when execute or fetchall raises, the caller of run_query
\* gets that same error, after the cursor close and the connection close.
C7_Original ==
    (QueryOver /\ (Failed("execute") \/ Failed("fetchall"))) =>
        /\ result = Raised(QueryError)
        /\ BothClosed

\* C7, amended: when execute or fetchall raises, the caller of run_query
\* gets an error (never a normal return, and nothing is retried), after the
\* cursor close and the connection close have both been called; that error
\* is the same error when both closes return, and otherwise the error of
\* the last close that raised, which replaces it.
C7_ErrorAfterCloses ==
    (QueryOver /\ (Failed("execute") \/ Failed("fetchall"))) =>
        /\ result.kind = "raise"
        /\ result.err = (IF Failed("connection.close") THEN ErrConnClose
                         ELSE IF Failed("cursor.close") THEN ErrCurClose
                         ELSE QueryError)
        /\ BothClosed
        /\ Count("execute") = 1
        /\ Count("fetchall") <= 1

\* fetchall has raised, both closes have returned and the caller has
\* fetchall's error
C7_Witness ==
    /\ QueryOver
    /\ Failed("fetchall")
    /\ ~Failed("cursor.close") /\ ~Failed("connection.close")
    /\ result = Raised(ErrFetchall)

(* ---------------------------------------------------------------------- *)
(* C8                                                                      *)
(* ---------------------------------------------------------------------- *)
\* the position of the one call `name`
Pos(name) == CHOOSE i \in Positions(name) : TRUE

\* C8: on every exit of run_query once it has its connection, the
\* connection close has been called, once and as the last driver call; when
\* a cursor was opened its close was called before the connection close;
\* and on the success path the calls are connect, cursor, execute, fetchall,
\* cursor close, connection close, in this order.
C8_ReleaseOrder ==
    (QueryOver /\ conn # 0) =>
        /\ Count("connection.close") = 1
        /\ Names[Len(events)] = "connection.close"
        /\ conns[conn].closes = 1
        /\ cur # 0 =>
              /\ Count("cursor.close") = 1
              /\ Pos("cursor.close") < Pos("connection.close")
              /\ Pos("cursor") < Pos("cursor.close")
        /\ cur = 0 => Count("cursor.close") = 0
        /\ result.kind = "return" =>
              Names = <<"connect", "cursor", "execute", "fetchall",
                        "cursor.close", "connection.close">>

\* the cursor close has raised and the connection close has still been called
C8_Witness ==
    /\ QueryOver /\ conn # 0 /\ cur # 0
    /\ Failed("cursor.close")
    /\ Count("connection.close") = 1

(* ---------------------------------------------------------------------- *)
(* C9                                                                      *)
(* ---------------------------------------------------------------------- *)
BetweenCalls == pc = "idle"

\* every connection of run_query was closed once, by the call that opened
\* it and by no other, every cursor was closed once, and no two connections
\* belong to the same call
QueryTornDown ==
    /\ \A i \in QueryConns :
          /\ conns[i].closes = 1
          /\ conns[i].users = {conns[i].call}
    /\ \A i \in DOMAIN cursors : cursors[i].closes = 1
    /\ \A i \in DOMAIN conns : \A j \in DOMAIN conns :
          conns[i].call = conns[j].call => i = j

\* C9 as stated: between calls, nothing run_query opened is open, and the
\* number of connect calls of run_query equals the number of connection
\* closes.
C9_Original ==
    BetweenCalls =>
        /\ QueryTornDown
        /\ connects["run_query"] = QueryCloses(Len(conns))

\* C9, amended: between calls, nothing run_query opened is open; each call
\* of run_query makes at most one connect call, and the number of connect
\* calls that returned a connection (not the number of connect calls: one
\* that raises yields nothing to close) equals the number of connection
\* closes; no connection is used by more than one call.
C9_NoLeakNoReuse ==
    /\ Len(connectLog) <= 1
    /\ BetweenCalls =>
          /\ QueryTornDown
          /\ Cardinality(QueryConns) = QueryCloses(Len(conns))
          /\ Cardinality(QueryConns) <= connects["run_query"]
          /\ connects["run_query"] + connects["get_snowflake_conn"] <= calls

\* two calls of run_query are over, each with a connection of its own
C9_Witness ==
    /\ BetweenCalls
    /\ Cardinality(QueryConns) = 2
    /\ QueryCloses(Len(conns)) = 2

(* ---------------------------------------------------------------------- *)
(* C10                                                                     *)
(* ---------------------------------------------------------------------- *)
\* a key is there and either cryptography is missing or the key is malformed
KeyUnusable(env) ==
    /\ HasValue(env, "SNOW_PRIVATE_KEY")
    /\ ~cryptography \/ ~PemParses(ValueOf(env, "SNOW_PRIVATE_KEY"))

\* C10: when SNOW_PRIVATE_KEY is present and cannot be used,
\* get_snowflake_conn raises and does not call connect, also when a
\* password is present; and when get_snowflake_conn fails inside run_query
\* (for this or any other reason, a failing connect included), the caller
\* gets the error, no cursor was opened and no close was called.
C10_NoFallbackNoCleanup ==
    /\ (FactoryActed /\ KeyUnusable(environ)) =>
          /\ pc = "done"
          /\ result.kind = "raise"
          /\ connectLog = <<>>
    /\ (QueryOver /\ conn = 0) =>
          /\ result.kind = "raise"
          /\ cur = 0
          /\ \A i \in DOMAIN events : events[i].call = "connect"
          /\ \A i \in DOMAIN conns : calls \notin conns[i].users

\* run_query is over in an environment with a malformed key and a usable
\* password: the key parser's error is with the caller
C10_Witness ==
    /\ QueryOver
    /\ snowflake /\ cryptography
    /\ KeyUnusable(environ) /\ HasValue(environ, "SNOW_PWD")
    /\ HasValue(environ, "SNOW_USER") /\ HasValue(environ, "SNOW_ACCOUNT")
    /\ result = Raised(ErrKeyParse)

====
